---- MODULE Spec2Model ----
(***************************************************************************)
(* Smart-Resume-Analyzer.                                                  *)
(*                                                                         *)
(* The repository holds the React front end (two Evaluate pages, their     *)
(* score cards, skill lists and forms, and the axios service) and the      *)
(* README of the Django back end.  The back end's scoring pipeline is not  *)
(* part of the sources; it is modelled from its design document and every  *)
(* such definition is marked "back end, from the design" below.            *)
(*                                                                         *)
(* Scores are numbers with a fractional part in the program (0.6*h+0.4*s). *)
(* They are kept here as integers in tenths of a point: 796 is 79.6.       *)
(***************************************************************************)
EXTENDS Integers, Sequences, FiniteSets, TLC

\* ------------------------------------------------------------------ bounds

\* Number of distinct non-stopword tokens a document can hold.
VocabSize == 2

Vocabulary == 1..VocabSize

\* Number of job postings the back end holds.
NumJobs == 2

\* ------------------------------------------------------------ plain values

\* JavaScript null / undefined / a missing field.
Null == [null |-> TRUE]

\* Percent points 0..100 that the scorers produce.
PercentRange == 0..100

\* Sample scorer outputs used where the full range is not needed: the band
\* edges, their neighbours, and 86/70, whose blend is 79.6.
HeuristicSamples == {0, 39, 40, 60, 80, 86, 100}
SemanticSamples == {1, 70, 100}

\* The job of the README scenario, and resumes to match against it.
RequiredSamples == {<<"Python", "Go", "Docker", "Kubernetes">>, <<"Python">>}
ResumeSkillSamples == {{"Python", "Docker", "SQL"}, {"Go"}, {}}

GenericFeedback == "generic feedback"
AiFeedback == "ai feedback"

\* --------------------------------------------------- score cards (front end)

\* ScoreCard.tsx, getScoreConfig: the band of a score, first match wins.
getScoreConfig_StrictBounds(score) ==
    IF score > 800 THEN [class |-> "score-excellent", label |-> "Excellent Match"]
    ELSE IF score > 600 THEN [class |-> "score-good", label |-> "Good Match"]
    ELSE IF score > 400 THEN [class |-> "score-fair", label |-> "Fair Match"]
    ELSE [class |-> "score-poor", label |-> "Needs Improvement"]

getScoreConfig(score) ==
    IF score >= 800 THEN [class |-> "score-excellent", label |-> "Excellent Match"]
    ELSE IF score >= 600 THEN [class |-> "score-good", label |-> "Good Match"]
    ELSE IF score >= 400 THEN [class |-> "score-fair", label |-> "Fair Match"]
    ELSE [class |-> "score-poor", label |-> "Needs Improvement"]

\* ScoreCard.tsx: what the card shows for a score.  Evaluate.tsx passes no
\* label, so the heading is config.label; the number is the score as it is.
ScoreCardTsx(score) ==
    LET config == getScoreConfig(score)
    IN  [shown_score |-> score, class |-> config.class, label |-> config.label,
         dash |-> score * 283, circle |-> 283 * 1000]

\* ScoreCard.jsx, getGradient: the colour of the ring, from the raw score.
getGradient(score) ==
    IF score >= 800 THEN "from-green-500 to-emerald-600"
    ELSE IF score >= 600 THEN "from-orange-400 to-amber-500"
    ELSE "from-red-500 to-rose-600"

\* Math.round on a score in tenths: the nearest integer, halves upwards.
MathRound(score) == (score + 5) \div 10

\* ScoreCard.jsx: shows Math.round(score) and the band it was handed.
ScoreCardJsx(score, overallFit) ==
    [shown_score |-> MathRound(score),
     fit |-> overallFit,
     gradient |-> getGradient(score)]

\* --------------------------------------- scoring engine (back end, from the design)

\* One named configuration of the two hybrid weights, in percent
\* (README: "Hybrid scoring (60% heuristic + 40% semantic)").
HybridWeights_Swapped == [heuristic |-> 40, semantic |-> 60]

HybridWeights == [heuristic |-> 60, semantic |-> 40]

\* Fit Classifier: threshold bands over the final score.
Classify(score) ==
    IF score >= 800 THEN "excellent"
    ELSE IF score >= 600 THEN "good"
    ELSE IF score >= 400 THEN "fair"
    ELSE "poor"

\* Skill Matcher: the required skills found in the resume and those not
\* found, each in the order of the requirement.
MatchSkills(req, found) ==
    [matched |-> SelectSeq(req, LAMBDA sk : sk \in found),
     missing |-> SelectSeq(req, LAMBDA sk : sk \notin found)]

\* Heuristic Scorer, keyword overlap: the proportion of the required skills
\* that are matched, in percent points (rounded down).
KeywordOverlap_Unscaled(match, req) ==
    Len(match.matched) \div Len(req)

KeywordOverlap(match, req) ==
    (100 * Len(match.matched)) \div Len(req)

\* Semantic Similarity Scorer: no similarity can be computed when a document
\* has no non-stopword token; with no common token the cosine is 0.
Degenerate(rTokens, jTokens) ==
    rTokens = {} \/ jTokens = {} \/ rTokens \cap jTokens = {}

\* The scorer's outcome.  The cosine of two documents with a common token is
\* positive; its value depends on the term weights and is left open.
SemanticOutcomes(rTokens, jTokens, values) ==
    IF Degenerate(rTokens, jTokens)
    THEN {[available |-> FALSE, value |-> 0]}
    ELSE {[available |-> TRUE, value |-> v] : v \in values \ {0}}

\* Hybrid Composer: the weighted blend, or the heuristic score alone when
\* the semantic signal is not available.  Result in tenths.
Compose_IgnoreFallback(h, sem) ==
    [score |-> (HybridWeights.heuristic * h + HybridWeights.semantic * sem.value) \div 10,
     method |-> "hybrid"]

Compose(h, sem) ==
    IF sem.available
    THEN [score |-> (HybridWeights.heuristic * h + HybridWeights.semantic * sem.value) \div 10,
          method |-> "hybrid"]
    ELSE [score |-> 10 * h, method |-> "heuristic_only"]

\* AI Refinement Adapter, successful call: the advisory score may be blended
\* into the hybrid score with a weight below 100 percent (never replacing
\* it); the feedback is the service's text.
AdvisorySamples == {0, 100}
BlendPercents == {0, 50}

Blend(hybridScore, advisory, w) ==
    ((100 - w) * hybridScore + w * 10 * advisory) \div 100

NoRefinement == [applied |-> FALSE, advisory |-> 0, weight |-> 0]

\* The EvaluationResult as the API returns it.  A result refined by the AI
\* service carries the service's assessment; every other result carries the
\* structured assessment with the heuristic score.
BuildResult(h, composed, match, refined) ==
    LET final == IF refined.applied
                 THEN Blend(composed.score, refined.advisory, refined.weight)
                 ELSE composed.score
    IN  [score |-> final,
         overall_fit |-> Classify(final),
         relevant_skills |-> match.matched,
         missing_skills |-> match.missing,
         feedback |-> IF refined.applied THEN AiFeedback ELSE GenericFeedback,
         method |-> [scoring |-> composed.method, ai_refined |-> refined.applied],
         structured_assessment |->
             IF refined.applied THEN Null ELSE [heuristic_score |-> h]]

\* ------------------------------------------------------------------- state

VARIABLES
    \* one evaluation inside the scoring engine
    pc,             \* stage of the evaluation
    requirement,    \* which job requirement the request carries
    file_kind,      \* what the uploaded bytes turn out to be
    required,       \* required skills of the job (or implied by the description)
    resumeSkills,   \* taxonomy skills present in the resume text
    resumeTokens,   \* non-stopword tokens of the resume text
    jobTokens,      \* non-stopword tokens of the job text
    ai_enabled,     \* configuration: AI adapter enabled
    skillMatch,     \* SkillMatchResult
    heuristic,      \* Heuristic Scorer output
    semantic,       \* Semantic Similarity Scorer output
    hybrid,         \* Hybrid Composer output
    ai,             \* state of the one AI call
    refinement,     \* what the adapter returned
    evaluation,     \* the EvaluationResult, once produced
    evalError,      \* the typed failure, once raised
    cards,          \* the two score cards rendered for the result
    \* the front end: one page in a browser
    page,           \* the mounted page: "jsx" (Evaluate.jsx), "tsx" (Evaluate.tsx),
                    \* "landing" (Home.tsx), "browse" (BrowseJobs.tsx), "home" (Home.jsx)
    jobs,           \* useState([]): the loaded job list
    jobsLoad,       \* the getJobs() call of the mount effect
    result,         \* useState(null): the evaluation result shown
    inflight,       \* evaluateResume calls sent and not yet settled
    outcome,        \* how the latest evaluateResume call stands
    answered,       \* the request behind the latest resolved call
    loading,        \* Evaluate.jsx useState(false)
    error,          \* Evaluate.jsx useState(null)
    formData,       \* EvaluationForm useState({...})
    resumeInput,    \* EvaluationForm: the file held by the <input type="file">
    isLoading,      \* Evaluate.tsx useState(false)
    name,           \* Evaluate.tsx useState("")
    email,          \* Evaluate.tsx useState("")
    selectedJobId,  \* Evaluate.tsx useState("")
    file,           \* Evaluate.tsx useState(null)
    toast,          \* Evaluate.tsx: title of the latest toast
    fileUploadFile, \* FileUpload useState(null): the file the widget shows
    httpSent,       \* per api.js function: HTTP requests issued by its latest call
    modalJob,       \* listing pages useState(null) selectedJob: the job in the modal
    listLoading,    \* BrowseJobs isLoading / Home.jsx loading, useState(true)
    listError,      \* Home.jsx useState(null) error / BrowseJobs error toast
    applied         \* the job of the latest click on a modal's apply button

engineVars == <<pc, requirement, file_kind, required, resumeSkills, resumeTokens,
                jobTokens, ai_enabled, skillMatch, heuristic, semantic, hybrid,
                ai, refinement, evaluation, evalError, cards>>

jsxVars == <<loading, error, formData, resumeInput>>

tsxVars == <<isLoading, name, email, selectedJobId, file, toast>>

listVars == <<modalJob, listLoading, listError, applied>>

frontVars == <<page, jobs, jobsLoad, result, inflight, outcome, answered,
               jsxVars, tsxVars, fileUploadFile, httpSent, listVars>>

vars == <<engineVars, frontVars>>

inputVars == <<requirement, file_kind, required, resumeSkills, resumeTokens,
               jobTokens, ai_enabled>>

NotScored == [done |-> FALSE, value |-> 0, keyword |-> 0]
NoSemantic == [done |-> FALSE, available |-> FALSE, value |-> 0]
NoHybrid == [score |-> 0, method |-> "none"]

\* ----------------------------------------------------- the scoring engine

\* No page is open while the engine is looked at on its own.
FrontIdle ==
    /\ page = "none"
    /\ jobs = <<>>
    /\ jobsLoad = "idle"
    /\ result = Null
    /\ inflight = <<>>
    /\ outcome = "none"
    /\ answered = Null
    /\ loading = FALSE
    /\ error = Null
    /\ formData = Null
    /\ resumeInput = Null
    /\ isLoading = FALSE
    /\ name = ""
    /\ email = ""
    /\ selectedJobId = ""
    /\ file = Null
    /\ toast = "none"
    /\ fileUploadFile = Null
    /\ httpSent = [getJobs |-> 0, applyJob |-> 0, evaluateResume |-> 0]
    /\ modalJob = Null
    /\ listLoading = FALSE
    /\ listError = Null
    /\ applied = Null

EngineStart ==
    /\ FrontIdle
    /\ heuristic = NotScored
    /\ semantic = NoSemantic
    /\ hybrid = NoHybrid
    /\ ai = "idle"
    /\ refinement = NoRefinement
    /\ evaluation = Null
    /\ evalError = "none"
    /\ cards = Null

InitPipeline ==
    /\ pc = "received"
    /\ requirement \in {"structured", "free_form", "both", "neither"}
    /\ file_kind \in {"readable", "unsupported", "unreadable"}
    /\ required \in RequiredSamples
    /\ resumeSkills \in ResumeSkillSamples
    /\ resumeTokens \in SUBSET Vocabulary
    /\ jobTokens \in SUBSET Vocabulary
    /\ ai_enabled \in BOOLEAN
    /\ skillMatch = Null
    /\ EngineStart

\* InvalidRequirement: both or neither of job_id / job_description supplied.
RejectRequirement ==
    /\ pc = "received"
    /\ requirement \in {"both", "neither"}
    /\ pc' = "failed"
    /\ evalError' = "InvalidRequirement"
    /\ UNCHANGED <<frontVars, inputVars, skillMatch, heuristic, semantic, hybrid, ai,
                   refinement, evaluation, cards>>

\* Format Detector and Text Extractor: fatal when the format is unknown or
\* no text can be extracted.
ExtractFails ==
    /\ pc = "received"
    /\ requirement \in {"structured", "free_form"}
    /\ file_kind # "readable"
    /\ pc' = "failed"
    /\ evalError' = IF file_kind = "unsupported" THEN "UnsupportedFormat"
                    ELSE "ExtractionFailed"
    /\ UNCHANGED <<frontVars, inputVars, skillMatch, heuristic, semantic, hybrid, ai,
                   refinement, evaluation, cards>>

Extract ==
    /\ pc = "received"
    /\ requirement \in {"structured", "free_form"}
    /\ file_kind = "readable"
    /\ pc' = "extracted"
    /\ UNCHANGED <<frontVars, inputVars, skillMatch, heuristic, semantic, hybrid, ai,
                   refinement, evaluation, evalError, cards>>

Match ==
    /\ pc = "extracted"
    /\ skillMatch' = MatchSkills(required, resumeSkills)
    /\ pc' = "scoring"
    /\ UNCHANGED <<frontVars, inputVars, heuristic, semantic, hybrid, ai, refinement,
                   evaluation, evalError, cards>>

\* The two scorers have no data dependency and run in either order.
ScoreHeuristic(values) ==
    /\ pc = "scoring"
    /\ ~heuristic.done
    /\ \E v \in values :
          heuristic' = [done |-> TRUE, value |-> v,
                        keyword |-> KeywordOverlap(skillMatch, required)]
    /\ UNCHANGED <<frontVars, pc, inputVars, skillMatch, semantic, hybrid, ai, refinement,
                   evaluation, evalError, cards>>

ScoreSemantic(values) ==
    /\ pc = "scoring"
    /\ ~semantic.done
    /\ \E out \in SemanticOutcomes(resumeTokens, jobTokens, values) :
          semantic' = [done |-> TRUE, available |-> out.available, value |-> out.value]
    /\ UNCHANGED <<frontVars, pc, inputVars, skillMatch, heuristic, hybrid, ai, refinement,
                   evaluation, evalError, cards>>

\* The composer is the join point of the two scorers.
ComposeScores ==
    /\ pc = "scoring"
    /\ heuristic.done /\ semantic.done
    /\ hybrid' = Compose(heuristic.value, semantic)
    /\ pc' = IF ai_enabled THEN "refining" ELSE "classifying"
    /\ UNCHANGED <<frontVars, inputVars, skillMatch, heuristic, semantic, ai, refinement,
                   evaluation, evalError, cards>>

\* The adapter makes its one call, bounded by a timeout.
StartRefinement ==
    /\ pc = "refining"
    /\ ai = "idle"
    /\ ai' = "pending"
    /\ UNCHANGED <<frontVars, pc, inputVars, skillMatch, heuristic, semantic, hybrid,
                   refinement, evaluation, evalError, cards>>

RefinementSucceeds ==
    /\ pc = "refining"
    /\ ai = "pending"
    /\ ai' = "ok"
    /\ \E adv \in AdvisorySamples, w \in BlendPercents :
          refinement' = [applied |-> TRUE, advisory |-> adv, weight |-> w]
    /\ pc' = "classifying"
    /\ UNCHANGED <<frontVars, inputVars, skillMatch, heuristic, semantic, hybrid,
                   evaluation, evalError, cards>>

RefinementTimesOut_AppliesAdvisory ==
    /\ pc = "refining"
    /\ ai = "pending"
    /\ ai' = "timeout"
    /\ refinement' = [applied |-> TRUE, advisory |-> 0, weight |-> 50]
    /\ pc' = "classifying"
    /\ UNCHANGED <<frontVars, inputVars, skillMatch, heuristic, semantic, hybrid,
                   evaluation, evalError, cards>>

RefinementTimesOut ==
    /\ pc = "refining"
    /\ ai = "pending"
    /\ ai' = "timeout"
    /\ refinement' = NoRefinement
    /\ pc' = "classifying"
    /\ UNCHANGED <<frontVars, inputVars, skillMatch, heuristic, semantic, hybrid,
                   evaluation, evalError, cards>>

RefinementFails ==
    /\ pc = "refining"
    /\ ai = "pending"
    /\ ai' = "error"
    /\ refinement' = NoRefinement
    /\ pc' = "classifying"
    /\ UNCHANGED <<frontVars, inputVars, skillMatch, heuristic, semantic, hybrid,
                   evaluation, evalError, cards>>

\* Fit Classifier and construction of the result.
Finish ==
    /\ pc = "classifying"
    /\ evaluation' = BuildResult(heuristic.value, hybrid, skillMatch, refinement)
    /\ pc' = "done"
    /\ UNCHANGED <<frontVars, inputVars, skillMatch, heuristic, semantic, hybrid, ai,
                   refinement, evalError, cards>>

\* The presentation layer renders the result in both score cards.
RenderScoreCards ==
    /\ pc = "done"
    /\ cards = Null
    /\ cards' = [tsx |-> ScoreCardTsx(evaluation.score),
                 jsx |-> ScoreCardJsx(evaluation.score, evaluation.overall_fit)]
    /\ UNCHANGED <<frontVars, pc, inputVars, skillMatch, heuristic, semantic, hybrid, ai,
                   refinement, evaluation, evalError>>

NextPipeline ==
    \/ RejectRequirement
    \/ ExtractFails
    \/ Extract
    \/ Match
    \/ ScoreHeuristic(HeuristicSamples)
    \/ ScoreSemantic(SemanticSamples)
    \/ ComposeScores
    \/ StartRefinement
    \/ RefinementSucceeds
    \/ RefinementTimesOut
    \/ RefinementFails
    \/ Finish
    \/ RenderScoreCards

SpecPipeline == InitPipeline /\ [][NextPipeline]_vars

\* The scorers, the composer, the classifier and the cards over the whole
\* range of both scores, AI adapter disabled.
InitScoring ==
    /\ pc = "scoring"
    /\ requirement = "structured"
    /\ file_kind = "readable"
    /\ required = <<"Python", "Go", "Docker", "Kubernetes">>
    /\ resumeSkills = {"Python", "Docker", "SQL"}
    /\ resumeTokens \in SUBSET Vocabulary
    /\ jobTokens = {1}
    /\ ai_enabled = FALSE
    /\ skillMatch = MatchSkills(required, resumeSkills)
    /\ EngineStart

NextScoring ==
    \/ ScoreHeuristic(PercentRange)
    \/ ScoreSemantic(PercentRange)
    \/ ComposeScores
    \/ Finish
    \/ RenderScoreCards

SpecScoring == InitScoring /\ [][NextScoring]_vars

\* ---------------------------------------------------------------- front end

\* The job postings; getJobs returns them all.
JobList == [i \in 1..NumJobs |-> [id |-> i]]

JobIdStrings == {ToString(i) : i \in 1..NumJobs}

\* Values a user can type or pick.
Names == {"", "Ann"}
Emails == {"", "ann@example.com"}
Descriptions == {"", "Python developer"}
UrlJobIds == {"", "1", "99"}
TheResume == [name |-> "cv.pdf"]

\* A file that is no resume document.
TheProgram == [name |-> "setup.exe"]

\* The extension of a file's name.
FileExtension(f) ==
    CASE f.name = "cv.pdf" -> ".pdf"
      [] f.name = "setup.exe" -> ".exe"

\* FileUpload: the default of its accept prop, ".pdf,.doc,.docx".
accept == {".pdf", ".doc", ".docx"}

\* Back end, from the design: the formats the Format Detector recognises
\* (PDF, image, DOCX, plain text).
RecognisedExtensions == {".pdf", ".docx", ".txt", ".png", ".jpg", ".jpeg"}

\* FormData: the entries in the order they were appended.
Has(fd, key) == \E i \in DOMAIN fd : fd[i][1] = key
Get(fd, key) == fd[CHOOSE i \in DOMAIN fd : fd[i][1] = key][2]

\* Back end, from the design: the request is evaluated only when it carries
\* exactly one job requirement, the id of an existing posting or a
\* description, and a file of a recognised format; otherwise the call fails.
EngineAccepts(req) ==
    /\ Has(req, "job_id") # Has(req, "job_description")
    /\ Has(req, "job_id") => Get(req, "job_id") \in JobIdStrings
    /\ Has(req, "job_description") => Get(req, "job_description") # ""
    /\ FileExtension(Get(req, "resume")) \in RecognisedExtensions

\* Back end, from the design: the required skills of the request's job, or
\* those its description implies.
RequiredOf(req) ==
    IF Has(req, "job_id") /\ Get(req, "job_id") = "1"
    THEN <<"Python", "Go", "Docker", "Kubernetes">>
    ELSE <<"Python">>

\* Every result the engine can return for a requirement, over the given
\* scorer outputs.
EngineResults(req, hValues, sValues) ==
    { BuildResult(h, Compose(h, sem), MatchSkills(req, rs), r) :
        h \in hValues,
        sem \in UNION { SemanticOutcomes(rt, jt, sValues) :
                          rt \in SUBSET Vocabulary, jt \in SUBSET Vocabulary },
        rs \in ResumeSkillSamples,
        r \in {NoRefinement} \cup
              { [applied |-> TRUE, advisory |-> adv, weight |-> w] :
                  adv \in AdvisorySamples, w \in BlendPercents } }

PageHeuristicSamples == {0, 86, 100}
PageSemanticSamples == {70}

\* EvaluationForm.handleSubmit: the FormData built from the form state.
FormDataOf_BothRequirements(fd) ==
    << <<"candidate_name", fd.candidate_name>>,
       <<"candidate_email", fd.candidate_email>>,
       <<"resume", fd.file>>,
       <<"job_id", fd.job_id>>,
       <<"job_description", fd.job_description>> >>

FormDataOf(fd) ==
    LET data == << <<"candidate_name", fd.candidate_name>>,
                   <<"candidate_email", fd.candidate_email>>,
                   <<"resume", fd.file>> >>
    IN  IF fd.job_id # ""
        THEN Append(data, <<"job_id", fd.job_id>>)
        ELSE Append(data, <<"job_description", fd.job_description>>)

\* EvaluationForm: the browser's constraint validation of the form (the
\* required name, email and file inputs, and the required description that
\* is rendered only without a job).
FormValid(fd, input) ==
    /\ fd.candidate_name # ""
    /\ fd.candidate_email # ""
    /\ fd.job_id = "" => fd.job_description # ""
    /\ input # Null

\* Evaluate.tsx handleEvaluation: the FormData it sends.
TsxFormData ==
    << <<"resume", file>>,
       <<"job_id", selectedJobId>>,
       <<"candidate_name", name>>,
       <<"candidate_email", email>> >>

\* Evaluate.tsx handleEvaluation: the result kept from the response (the
\* engine's results always carry both skill lists, so "|| []" keeps them).
ToResult_ScoreAsFraction(data) ==
    [score |-> data.score * 100,
     matchedSkills |-> data.relevant_skills,
     missingSkills |-> data.missing_skills,
     feedback |-> data.feedback]

ToResult_MissingTwice(data) ==
    [score |-> data.score,
     matchedSkills |-> data.missing_skills,
     missingSkills |-> data.missing_skills,
     feedback |-> data.feedback]

ToResult(data) ==
    [score |-> data.score,
     matchedSkills |-> data.relevant_skills,
     missingSkills |-> data.missing_skills,
     feedback |-> data.feedback]

\* Evaluate.jsx: the evaluation method named under the feedback; a number
\* is truthy unless it is 0.
EvaluationMethodLabel(res) ==
    LET sa == res.structured_assessment
    IN  IF sa # Null /\ sa.heuristic_score # 0
        THEN "Hybrid Scoring"
        ELSE "AI Analysis"

\* Evaluate.tsx: which panel the results section shows.
TsxPanel ==
    IF isLoading THEN "loading"
    ELSE IF result # Null THEN "result"
    ELSE "empty"

\* Evaluate.jsx: the panels of the results column.
JsxPanels ==
    (IF result = Null /\ ~loading /\ error = Null THEN {"ready"} ELSE {}) \cup
    (IF error # Null THEN {"error"} ELSE {}) \cup
    (IF result # Null THEN {"result"} ELSE {})

\* services/api.js: no function has been called yet.
NoRequests == [getJobs |-> 0, applyJob |-> 0, evaluateResume |-> 0]

\* services/api.js: a call of getJobs, applyJob or evaluateResume awaits one
\* api.get / api.post.
apiCall(sent, fn) == [sent EXCEPT ![fn] = 1]

\* services/api.js catch blocks: the error is logged and rethrown, no
\* request is issued.
RequestsAfterFailure_Retry(n) == n + 1

RequestsAfterFailure(n) == n

apiCatch(sent, fn) == [sent EXCEPT ![fn] = RequestsAfterFailure(@)]

\* mockJobs.slice(0, 3) of the landing page.
featuredJobs == JobList

\* The state of the Evaluate pages while none of them is mounted.
EvaluateUnmounted ==
    /\ loading = FALSE /\ error = Null /\ formData = Null /\ resumeInput = Null
    /\ isLoading = FALSE /\ name = "" /\ email = "" /\ selectedJobId = ""
    /\ file = Null /\ toast = "none"

EngineIdle ==
    /\ pc = "idle"
    /\ requirement = "none"
    /\ file_kind = "none"
    /\ required = <<>>
    /\ resumeSkills = {}
    /\ resumeTokens = {}
    /\ jobTokens = {}
    /\ ai_enabled = FALSE
    /\ skillMatch = Null
    /\ heuristic = NotScored
    /\ semantic = NoSemantic
    /\ hybrid = NoHybrid
    /\ ai = "idle"
    /\ refinement = NoRefinement
    /\ evaluation = Null
    /\ evalError = "none"
    /\ cards = Null

\* Evaluate.jsx mounted: the job list is being fetched; the form starts
\* with the job handed over by the Home page, if any.
InitJsx ==
    /\ page = "jsx"
    /\ \E selectedJob \in {Null} \cup {JobList[i] : i \in 1..NumJobs} :
          formData = [candidate_name |-> "",
                      candidate_email |-> "",
                      job_id |-> IF selectedJob = Null THEN ""
                                 ELSE ToString(selectedJob.id),
                      job_description |-> "",
                      file |-> Null]
    /\ resumeInput = Null
    /\ loading = FALSE
    /\ error = Null
    /\ isLoading = FALSE /\ name = "" /\ email = "" /\ selectedJobId = ""
    /\ file = Null /\ toast = "none"

\* Evaluate.tsx mounted: the job list is being fetched and the jobId URL
\* parameter, if any, is the selected job id.
InitTsx ==
    /\ page = "tsx"
    /\ name = "" /\ email = "" /\ file = Null
    /\ selectedJobId \in UrlJobIds
    /\ isLoading = FALSE
    /\ toast = "none"
    /\ loading = FALSE /\ error = Null /\ formData = Null /\ resumeInput = Null

\* Home.tsx (landing page) mounted: it lists mock jobs and fetches nothing.
InitLanding ==
    /\ page = "landing"
    /\ jobs = featuredJobs
    /\ jobsLoad = "idle"
    /\ listLoading = FALSE
    /\ httpSent = NoRequests

\* BrowseJobs.tsx or Home.jsx mounted: the loading flag starts true and the
\* mount effect has called getJobs.
InitListing ==
    /\ page \in {"browse", "home"}
    /\ jobs = <<>>
    /\ jobsLoad = "pending"
    /\ listLoading = TRUE
    /\ httpSent = apiCall(NoRequests, "getJobs")

\* An Evaluate page opened by its URL.
InitEvaluate ==
    /\ jobs = <<>>
    /\ jobsLoad = "pending"
    /\ listLoading = FALSE
    /\ httpSent = apiCall(NoRequests, "getJobs")
    /\ (InitJsx \/ InitTsx)

Init ==
    /\ EngineIdle
    /\ result = Null
    /\ inflight = <<>>
    /\ outcome = "none"
    /\ answered = Null
    /\ fileUploadFile = Null
    /\ modalJob = Null
    /\ listError = Null
    /\ applied = Null
    /\ \/ InitEvaluate
       \/ /\ (InitLanding \/ InitListing)
          /\ EvaluateUnmounted

\* fetchJobs of the mount effect (both pages): the list is stored.
fetchJobsResolves ==
    /\ page \in {"jsx", "tsx"}
    /\ jobsLoad = "pending"
    /\ jobs' = JobList
    /\ jobsLoad' = "done"
    /\ UNCHANGED <<engineVars, listVars, fileUploadFile, httpSent, page, result, inflight, outcome, answered,
                   jsxVars, tsxVars>>

\* fetchJobs: the failure is logged and nothing else changes.
fetchJobsRejects ==
    /\ page \in {"jsx", "tsx"}
    /\ jobsLoad = "pending"
    /\ jobsLoad' = "failed"
    /\ httpSent' = apiCatch(httpSent, "getJobs")
    /\ UNCHANGED <<engineVars, listVars, fileUploadFile, page, jobs, result, inflight, outcome, answered,
                   jsxVars, tsxVars>>

\* EvaluationForm.handleChange: a text input, the job select (the empty
\* option or a loaded job) or the description, shown only without a job.
handleChange ==
    /\ page = "jsx"
    /\ \/ \E v \in Names : formData' = [formData EXCEPT !.candidate_name = v]
       \/ \E v \in Emails : formData' = [formData EXCEPT !.candidate_email = v]
       \/ \E v \in {""} \cup {ToString(jobs[i].id) : i \in DOMAIN jobs} :
             formData' = [formData EXCEPT !.job_id = v]
       \/ /\ formData.job_id = ""
          /\ \E v \in Descriptions : formData' = [formData EXCEPT !.job_description = v]
    /\ UNCHANGED <<engineVars, listVars, fileUploadFile, httpSent, page, jobs, jobsLoad, result, inflight, outcome,
                   answered, loading, error, resumeInput, tsxVars>>

\* EvaluationForm.handleFileChange: a chosen file is stored; a cancelled
\* dialog stores nothing, and the browser keeps or empties its input.
handleFileChange_StoresEmptyChoice ==
    /\ page = "jsx"
    /\ \/ /\ formData' = [formData EXCEPT !.file = TheResume]
          /\ resumeInput' = TheResume
       \/ /\ resumeInput' \in {resumeInput, Null}
          /\ formData' = [formData EXCEPT !.file = resumeInput']
    /\ UNCHANGED <<engineVars, listVars, fileUploadFile, httpSent, page, jobs, jobsLoad,
                   result, inflight, outcome, answered, loading, error, tsxVars>>

handleFileChange ==
    /\ page = "jsx"
    /\ \/ /\ formData' = [formData EXCEPT !.file = TheResume]
          /\ resumeInput' = TheResume
       \/ /\ resumeInput' \in {resumeInput, Null}
          /\ UNCHANGED formData
    /\ UNCHANGED <<engineVars, listVars, fileUploadFile, httpSent, page, jobs, jobsLoad, result, inflight, outcome,
                   answered, loading, error, tsxVars>>

\* EvaluationForm.handleSubmit, which calls Evaluate.jsx handleEvaluation up
\* to its await.  The submit button is disabled while loading or without a
\* file, and the browser submits only a valid form.
handleSubmit_KeepsError ==
    /\ page = "jsx"
    /\ ~loading /\ formData.file # Null
    /\ FormValid(formData, resumeInput)
    /\ loading' = TRUE
    /\ result' = Null
    /\ inflight' = Append(inflight, FormDataOf(formData))
    /\ httpSent' = apiCall(httpSent, "evaluateResume")
    /\ outcome' = "pending"
    /\ UNCHANGED <<engineVars, listVars, fileUploadFile, page, jobs, jobsLoad, answered,
                   error, formData, resumeInput, tsxVars>>

handleSubmit_EnabledWhileLoading ==
    /\ page = "jsx"
    /\ formData.file # Null
    /\ FormValid(formData, resumeInput)
    /\ loading' = TRUE
    /\ error' = Null
    /\ result' = Null
    /\ inflight' = Append(inflight, FormDataOf(formData))
    /\ httpSent' = apiCall(httpSent, "evaluateResume")
    /\ outcome' = "pending"
    /\ UNCHANGED <<engineVars, listVars, fileUploadFile, page, jobs, jobsLoad, answered,
                   formData, resumeInput, tsxVars>>

handleSubmit ==
    /\ page = "jsx"
    /\ ~loading /\ formData.file # Null
    /\ FormValid(formData, resumeInput)
    /\ loading' = TRUE
    /\ error' = Null
    /\ result' = Null
    /\ inflight' = Append(inflight, FormDataOf(formData))
    /\ httpSent' = apiCall(httpSent, "evaluateResume")
    /\ outcome' = "pending"
    /\ UNCHANGED <<engineVars, listVars, fileUploadFile, page, jobs, jobsLoad, answered, formData,
                   resumeInput, tsxVars>>

\* Evaluate.jsx handleEvaluation after the await, evaluateResume resolved.
jsxEvaluationResolves ==
    /\ page = "jsx"
    /\ inflight # <<>>
    /\ EngineAccepts(Head(inflight))
    /\ \E data \in EngineResults(RequiredOf(Head(inflight)),
                                  PageHeuristicSamples, PageSemanticSamples) :
          result' = data
    /\ loading' = FALSE
    /\ inflight' = Tail(inflight)
    /\ outcome' = "fulfilled"
    /\ answered' = [request |-> Head(inflight), required |-> RequiredOf(Head(inflight))]
    /\ UNCHANGED <<engineVars, listVars, fileUploadFile, httpSent, page, jobs, jobsLoad, error, formData,
                   resumeInput, tsxVars>>

\* Evaluate.jsx handleEvaluation after the await, evaluateResume rejected.
jsxEvaluationRejects ==
    /\ page = "jsx"
    /\ inflight # <<>>
    /\ error' = [message |-> "Evaluation failed. Please check your file and try again."]
    /\ loading' = FALSE
    /\ inflight' = Tail(inflight)
    /\ outcome' = "rejected"
    /\ httpSent' = apiCatch(httpSent, "evaluateResume")
    /\ UNCHANGED <<engineVars, listVars, fileUploadFile, page, jobs, jobsLoad, result, answered, formData,
                   resumeInput, tsxVars>>

\* Evaluate.tsx: the name and email inputs and the job select (loaded jobs
\* only).
setName ==
    /\ page = "tsx"
    /\ \E v \in Names : name' = v
    /\ UNCHANGED <<engineVars, listVars, fileUploadFile, httpSent, page, jobs, jobsLoad, result, inflight, outcome,
                   answered, jsxVars, isLoading, email, selectedJobId, file, toast>>

setEmail ==
    /\ page = "tsx"
    /\ \E v \in Emails : email' = v
    /\ UNCHANGED <<engineVars, listVars, fileUploadFile, httpSent, page, jobs, jobsLoad, result, inflight, outcome,
                   answered, jsxVars, isLoading, name, selectedJobId, file, toast>>

setSelectedJobId ==
    /\ page = "tsx"
    /\ \E i \in DOMAIN jobs : selectedJobId' = ToString(jobs[i].id)
    /\ UNCHANGED <<engineVars, listVars, fileUploadFile, httpSent, page, jobs, jobsLoad, result, inflight, outcome,
                   answered, jsxVars, isLoading, name, email, file, toast>>

\* FileUpload.handleChange: the picker of the drop zone, which is rendered
\* while the widget holds no file; the chosen file goes to the widget's state
\* and, through onFileSelect={setFile}, to the page's.  The dialog of the
\* input offers the files its accept attribute names.
fileUploadHandleChange ==
    /\ page = "tsx"
    /\ fileUploadFile = Null
    /\ fileUploadFile' = TheResume
    /\ file' = TheResume
    /\ UNCHANGED <<engineVars, listVars, httpSent, page, jobs, jobsLoad, result,
                   inflight, outcome, answered, jsxVars, isLoading, name, email,
                   selectedJobId, toast>>

\* FileUpload.handleDrop: the first of the dropped files, whatever it is,
\* stored the same way.
fileUploadHandleDrop ==
    /\ page = "tsx"
    /\ fileUploadFile = Null
    /\ \E files \in {<<TheResume>>, <<TheProgram>>,
                     <<TheResume, TheProgram>>, <<TheProgram, TheResume>>} :
          /\ fileUploadFile' = files[1]
          /\ file' = files[1]
    /\ UNCHANGED <<engineVars, listVars, httpSent, page, jobs, jobsLoad, result,
                   inflight, outcome, answered, jsxVars, isLoading, name, email,
                   selectedJobId, toast>>

\* FileUpload.removeFile: the X button next to the file the widget shows.
removeFile ==
    /\ page = "tsx"
    /\ fileUploadFile # Null
    /\ fileUploadFile' = Null
    /\ file' = Null
    /\ UNCHANGED <<engineVars, listVars, httpSent, page, jobs, jobsLoad, result,
                   inflight, outcome, answered, jsxVars, isLoading, name, email,
                   selectedJobId, toast>>

\* Evaluate.tsx handleEvaluation up to its await; the button that calls it
\* is disabled while loading or while a field is empty.
handleEvaluation_IgnoresFile ==
    /\ page = "tsx"
    /\ ~(isLoading \/ name = "" \/ email = "" \/ selectedJobId = "")
    /\ IF name = "" \/ email = "" \/ selectedJobId = ""
       THEN /\ toast' = "Missing Information"
            /\ UNCHANGED <<isLoading, inflight, outcome, httpSent>>
       ELSE /\ isLoading' = TRUE
            /\ inflight' = Append(inflight, TsxFormData)
            /\ httpSent' = apiCall(httpSent, "evaluateResume")
            /\ outcome' = "pending"
            /\ UNCHANGED toast
    /\ UNCHANGED <<engineVars, listVars, fileUploadFile, page, jobs, jobsLoad, result,
                   answered, jsxVars, name, email, selectedJobId, file>>

handleEvaluation ==
    /\ page = "tsx"
    /\ ~(isLoading \/ name = "" \/ email = "" \/ selectedJobId = "" \/ file = Null)
    /\ IF name = "" \/ email = "" \/ selectedJobId = "" \/ file = Null
       THEN /\ toast' = "Missing Information"
            /\ UNCHANGED <<isLoading, inflight, outcome, httpSent>>
       ELSE /\ isLoading' = TRUE
            /\ inflight' = Append(inflight, TsxFormData)
            /\ httpSent' = apiCall(httpSent, "evaluateResume")
            /\ outcome' = "pending"
            /\ UNCHANGED toast
    /\ UNCHANGED <<engineVars, listVars, fileUploadFile, page, jobs, jobsLoad, result, answered, jsxVars,
                   name, email, selectedJobId, file>>

\* Evaluate.tsx handleEvaluation after the await, evaluateResume resolved.
tsxEvaluationResolves ==
    /\ page = "tsx"
    /\ inflight # <<>>
    /\ EngineAccepts(Head(inflight))
    /\ \E data \in EngineResults(RequiredOf(Head(inflight)),
                                  PageHeuristicSamples, PageSemanticSamples) :
          result' = ToResult(data)
    /\ toast' = "Evaluation Complete!"
    /\ isLoading' = FALSE
    /\ inflight' = Tail(inflight)
    /\ outcome' = "fulfilled"
    /\ answered' = [request |-> Head(inflight), required |-> RequiredOf(Head(inflight))]
    /\ UNCHANGED <<engineVars, listVars, fileUploadFile, httpSent, page, jobs, jobsLoad, jsxVars, name, email,
                   selectedJobId, file>>

\* Evaluate.tsx handleEvaluation after the await, evaluateResume rejected:
\* a toast, and the loading flag cleared.
tsxEvaluationRejects_NoFinally ==
    /\ page = "tsx"
    /\ inflight # <<>>
    /\ toast' = "Evaluation Failed"
    /\ inflight' = Tail(inflight)
    /\ outcome' = "rejected"
    /\ httpSent' = apiCatch(httpSent, "evaluateResume")
    /\ UNCHANGED <<engineVars, listVars, fileUploadFile, page, jobs, jobsLoad, result,
                   answered, jsxVars, isLoading, name, email, selectedJobId, file>>

tsxEvaluationRejects ==
    /\ page = "tsx"
    /\ inflight # <<>>
    /\ toast' = "Evaluation Failed"
    /\ isLoading' = FALSE
    /\ inflight' = Tail(inflight)
    /\ outcome' = "rejected"
    /\ httpSent' = apiCatch(httpSent, "evaluateResume")
    /\ UNCHANGED <<engineVars, listVars, fileUploadFile, page, jobs, jobsLoad, result, answered, jsxVars,
                   name, email, selectedJobId, file>>

\* Evaluate.tsx resetForm; its button is rendered only with a result.
resetForm_KeepsSelection ==
    /\ page = "tsx"
    /\ result # Null
    /\ name' = ""
    /\ email' = ""
    /\ file' = Null
    /\ result' = Null
    /\ UNCHANGED <<engineVars, listVars, fileUploadFile, httpSent, page, jobs, jobsLoad,
                   inflight, outcome, answered, jsxVars, isLoading, selectedJobId, toast>>

resetForm ==
    /\ page = "tsx"
    /\ result # Null
    /\ name' = ""
    /\ email' = ""
    /\ selectedJobId' = ""
    /\ file' = Null
    /\ result' = Null
    /\ UNCHANGED <<engineVars, listVars, fileUploadFile, httpSent, page, jobs, jobsLoad, inflight, outcome, answered,
                   jsxVars, isLoading, toast>>

\* ---------------------------------------------------- the listing pages

FailedToLoadJobs == [message |-> "Failed to load jobs. Please try again later."]

\* BrowseJobs fetchJobs, getJobs resolved: the list is stored and the
\* finally block clears the loading flag.
browseFetchJobsResolves ==
    /\ page = "browse"
    /\ jobsLoad = "pending"
    /\ jobs' = JobList
    /\ jobsLoad' = "done"
    /\ listLoading' = FALSE
    /\ UNCHANGED <<engineVars, result, inflight, outcome, answered, jsxVars, tsxVars,
                   fileUploadFile, httpSent, page, modalJob, listError, applied>>

\* BrowseJobs fetchJobs, getJobs rejected: an error toast, and the finally
\* block clears the loading flag.
browseFetchJobsRejects ==
    /\ page = "browse"
    /\ jobsLoad = "pending"
    /\ jobsLoad' = "failed"
    /\ httpSent' = apiCatch(httpSent, "getJobs")
    /\ listError' = FailedToLoadJobs
    /\ listLoading' = FALSE
    /\ UNCHANGED <<engineVars, result, inflight, outcome, answered, jsxVars, tsxVars,
                   fileUploadFile, page, jobs, modalJob, applied>>

\* Home.jsx fetchJobs, getJobs resolved.
homeFetchJobsResolves ==
    /\ page = "home"
    /\ jobsLoad = "pending"
    /\ jobs' = JobList
    /\ jobsLoad' = "done"
    /\ listLoading' = FALSE
    /\ UNCHANGED <<engineVars, result, inflight, outcome, answered, jsxVars, tsxVars,
                   fileUploadFile, httpSent, page, modalJob, listError, applied>>

\* Home.jsx fetchJobs, getJobs rejected: the error is kept and shown.
homeFetchJobsRejects ==
    /\ page = "home"
    /\ jobsLoad = "pending"
    /\ jobsLoad' = "failed"
    /\ httpSent' = apiCatch(httpSent, "getJobs")
    /\ listError' = FailedToLoadJobs
    /\ listLoading' = FALSE
    /\ UNCHANGED <<engineVars, result, inflight, outcome, answered, jsxVars, tsxVars,
                   fileUploadFile, page, jobs, modalJob, applied>>

\* Home.tsx: a featured job card is clicked.
landingOpenJob ==
    /\ page = "landing"
    /\ modalJob = Null
    /\ \E i \in DOMAIN jobs : modalJob' = jobs[i]
    /\ UNCHANGED <<engineVars, result, inflight, outcome, answered, jsxVars, tsxVars,
                   fileUploadFile, httpSent, page, jobs, jobsLoad, listLoading,
                   listError, applied>>

\* BrowseJobs: a job card is clicked; the grid is rendered once the loading
\* flag is cleared.
browseOpenJob ==
    /\ page = "browse"
    /\ ~listLoading
    /\ modalJob = Null
    /\ \E i \in DOMAIN jobs : modalJob' = jobs[i]
    /\ UNCHANGED <<engineVars, result, inflight, outcome, answered, jsxVars, tsxVars,
                   fileUploadFile, httpSent, page, jobs, jobsLoad, listLoading,
                   listError, applied>>

\* Home.jsx: onViewDetails of a job card; the cards are rendered when the
\* page neither loads nor shows an error.
homeOpenJob ==
    /\ page = "home"
    /\ ~listLoading
    /\ listError = Null
    /\ modalJob = Null
    /\ \E i \in DOMAIN jobs : modalJob' = jobs[i]
    /\ UNCHANGED <<engineVars, result, inflight, outcome, answered, jsxVars, tsxVars,
                   fileUploadFile, httpSent, page, jobs, jobsLoad, listLoading,
                   listError, applied>>

\* onClose of the modal of a listing page.
closeModal ==
    /\ page \in {"landing", "browse", "home"}
    /\ modalJob # Null
    /\ modalJob' = Null
    /\ UNCHANGED <<engineVars, result, inflight, outcome, answered, jsxVars, tsxVars,
                   fileUploadFile, httpSent, page, jobs, jobsLoad, listLoading,
                   listError, applied>>

\* JobModal "Apply Now" on the landing page: onApply?.(job.id), and Home.tsx
\* passes no onApply, so the click calls nothing.
landingApplyNow ==
    /\ page = "landing"
    /\ modalJob # Null
    /\ applied' = modalJob
    /\ UNCHANGED <<engineVars, result, inflight, outcome, answered, jsxVars, tsxVars,
                   fileUploadFile, httpSent, page, jobs, jobsLoad, modalJob,
                   listLoading, listError>>

\* JobModal "Apply Now" on BrowseJobs, handleApply(job.id): the browser
\* loads /evaluate?jobId=<id>, where Evaluate.tsx mounts, fetches the jobs
\* and takes the parameter as the selected job id.
browseHandleApply ==
    /\ page = "browse"
    /\ modalJob # Null
    /\ applied' = modalJob
    /\ page' = "tsx"
    /\ selectedJobId' = ToString(modalJob.id)
    /\ jobs' = <<>>
    /\ jobsLoad' = "pending"
    /\ httpSent' = apiCall(NoRequests, "getJobs")
    /\ modalJob' = Null
    /\ listLoading' = FALSE
    /\ listError' = Null
    /\ UNCHANGED <<engineVars, result, inflight, outcome, answered, jsxVars,
                   isLoading, name, email, file, toast, fileUploadFile>>

\* Home.jsx handleApply(selectedJob): navigate('/evaluate') with the job in
\* the location state; Evaluate.jsx mounts, fetches the jobs, and the form
\* starts with the job's id.
homeHandleApply ==
    /\ page = "home"
    /\ modalJob # Null
    /\ applied' = modalJob
    /\ page' = "jsx"
    /\ formData' = [candidate_name |-> "",
                    candidate_email |-> "",
                    job_id |-> ToString(modalJob.id),
                    job_description |-> "",
                    file |-> Null]
    /\ jobs' = <<>>
    /\ jobsLoad' = "pending"
    /\ httpSent' = apiCall(httpSent, "getJobs")
    /\ modalJob' = Null
    /\ listLoading' = FALSE
    /\ listError' = Null
    /\ UNCHANGED <<engineVars, result, inflight, outcome, answered, loading, error,
                   resumeInput, tsxVars, fileUploadFile>>

Next ==
    \/ browseFetchJobsResolves
    \/ browseFetchJobsRejects
    \/ homeFetchJobsResolves
    \/ homeFetchJobsRejects
    \/ landingOpenJob
    \/ browseOpenJob
    \/ homeOpenJob
    \/ closeModal
    \/ landingApplyNow
    \/ browseHandleApply
    \/ homeHandleApply
    \/ fetchJobsResolves
    \/ fetchJobsRejects
    \/ handleChange
    \/ handleFileChange
    \/ handleSubmit
    \/ jsxEvaluationResolves
    \/ jsxEvaluationRejects
    \/ setName
    \/ setEmail
    \/ setSelectedJobId
    \/ fileUploadHandleChange
    \/ fileUploadHandleDrop
    \/ removeFile
    \/ handleEvaluation
    \/ tsxEvaluationResolves
    \/ tsxEvaluationRejects
    \/ resetForm

Spec == Init /\ [][Next]_vars

\* ------------------------------------------------------------------ claims

\* The band a score-card class stands for.
ClassBand(class) ==
    CASE class = "score-excellent" -> "excellent"
      [] class = "score-good" -> "good"
      [] class = "score-fair" -> "fair"
      [] OTHER -> "poor"

\* C1: the band getScoreConfig gives a score follows the fixed thresholds
\* with inclusive lower bounds: >= 80 excellent, 60 <= score < 80 good,
\* 40 <= score < 60 fair, below 40 poor; 80, 60 and 40 themselves belong to
\* the upper band.
C1_BandThresholds ==
    cards # Null =>
        LET sc == evaluation.score
            config == getScoreConfig(sc)
        IN  /\ cards.tsx.class = config.class
            /\ cards.tsx.label = config.label
            /\ (sc >= 800) <=> (config.class = "score-excellent" /\ config.label = "Excellent Match")
            /\ (sc >= 600 /\ sc < 800) <=> (config.class = "score-good" /\ config.label = "Good Match")
            /\ (sc >= 400 /\ sc < 600) <=> (config.class = "score-fair" /\ config.label = "Fair Match")
            /\ (sc < 400) <=> (config.class = "score-poor" /\ config.label = "Needs Improvement")

C1_Witness ==
    /\ cards # Null
    /\ evaluation.score = 800
    /\ cards.tsx.class = "score-excellent"

\* C2: in both score cards the band shown is the band the threshold table
\* assigns to the score shown (so equal shown scores have equal bands).
C2_BandFollowsShownScore ==
    cards # Null =>
        /\ ClassBand(cards.tsx.class) = Classify(cards.tsx.shown_score)
        /\ cards.jsx.fit = Classify(10 * cards.jsx.shown_score)

C10_FailedRefinementKeepsHybrid ==
    (ai \in {"timeout", "error"}) =>
        /\ ai_enabled
        /\ pc \in {"classifying", "done"} /\ evalError = "none"
        /\ hybrid = Compose(heuristic.value, semantic)
        /\ pc = "done" =>
              /\ evaluation # Null
              /\ evaluation.score = hybrid.score
              /\ evaluation.feedback = GenericFeedback
              /\ ~evaluation.method.ai_refined
        /\ pc # "done" => ENABLED NextPipeline

C10_Witness ==
    /\ ai = "timeout"
    /\ pc = "done"
    /\ semantic.available
    /\ evaluation.score = hybrid.score
    /\ evaluation.feedback = GenericFeedback

Range(seq) == {seq[i] : i \in DOMAIN seq}
NoDuplicates(seq) == \A i, j \in DOMAIN seq : seq[i] = seq[j] => i = j

\* The skill lists the page hands to its SkillsList.
ShownMatched == IF page = "tsx" THEN result.matchedSkills ELSE result.relevant_skills
ShownMissing == IF page = "tsx" THEN result.missingSkills ELSE result.missing_skills

\* C3: every score a page holds as its result lies in 0..100, so the
\* progress ring of the score card is never negative and never more than
\* the full circle.
C3_ScoreInRange ==
    result # Null =>
        /\ result.score >= 0 /\ result.score <= 1000
        /\ ScoreCardTsx(result.score).dash >= 0
        /\ ScoreCardTsx(result.score).dash <= ScoreCardTsx(result.score).circle

C3_Witness ==
    /\ page = "tsx"
    /\ TsxPanel = "result"
    /\ result.score = 1000
    /\ ScoreCardTsx(result.score).dash = ScoreCardTsx(result.score).circle

\* C4: every evaluation request sent carries exactly one job requirement,
\* a job_id or a non-empty job_description, never both and never neither.
C4_ExactlyOneRequirement ==
    \A i \in DOMAIN inflight :
        LET req == inflight[i]
            entries == {k \in DOMAIN req : req[k][1] \in {"job_id", "job_description"}}
        IN  /\ Cardinality(entries) = 1
            /\ Has(req, "job_id") # Has(req, "job_description")
            /\ \A k \in entries : req[k][2] # ""

\* A request with a job_id sent from a form that also holds a description.
C4_Witness ==
    /\ page = "jsx"
    /\ inflight # <<>>
    /\ Has(Head(inflight), "job_id")
    /\ ~Has(Head(inflight), "job_description")
    /\ formData.job_id # ""
    /\ formData.job_description # ""

\* C5: for every result displayed, the matched and the missing skills have
\* no duplicates, are disjoint, and together are exactly the required
\* skills of the job the request was evaluated against.
C5_SkillsPartitionRequired ==
    result # Null =>
        /\ NoDuplicates(ShownMatched)
        /\ NoDuplicates(ShownMissing)
        /\ Range(ShownMatched) \cap Range(ShownMissing) = {}
        /\ Range(ShownMatched) \cup Range(ShownMissing) = Range(answered.required)

C5_Witness ==
    /\ page = "tsx"
    /\ TsxPanel = "result"
    /\ result.matchedSkills = <<"Python", "Docker">>
    /\ result.missingSkills = <<"Go", "Kubernetes">>

\* C6: when the latest evaluation failed, the page holds and shows no
\* result and shows a failure indication, on both Evaluate pages.
C6_FailureShowsNoResult ==
    outcome = "rejected" =>
        /\ result = Null
        /\ page = "jsx" => (error # Null /\ "result" \notin JsxPanels)
        /\ page = "tsx" => (toast = "Evaluation Failed" /\ TsxPanel # "result")

\* C7: the method shown with a result is "Hybrid Scoring" exactly for the
\* results that carry a heuristic score, whatever its value, and
\* "AI Analysis" for those that carry none.
C7_MethodLabelTellsMethods ==
    (page = "jsx" /\ result # Null) =>
        /\ result.structured_assessment # Null =>
              EvaluationMethodLabel(result) = "Hybrid Scoring"
        /\ result.structured_assessment = Null =>
              EvaluationMethodLabel(result) = "AI Analysis"

\* C11: no request is retried automatically.  Each call of getJobs,
\* applyJob or evaluateResume has issued exactly one HTTP request (none for
\* a function never called), a failed call has reached its caller's catch
\* with no second request and nothing left in flight, and an evaluation
\* request is put in flight only by the user's submit.
C11_NoAutomaticRetry ==
    /\ [](/\ \A fn \in DOMAIN httpSent : httpSent[fn] <= 1
          /\ httpSent.evaluateResume = (IF outcome = "none" THEN 0 ELSE 1)
          /\ httpSent.getJobs = (IF jobsLoad = "idle" THEN 0 ELSE 1)
          /\ Len(inflight) <= httpSent.evaluateResume
          /\ outcome = "rejected" =>
                /\ inflight = <<>>
                /\ page = "jsx" => error # Null
                /\ page = "tsx" => toast = "Evaluation Failed"
          /\ (jobsLoad = "failed" /\ page \in {"browse", "home"}) =>
                listError = FailedToLoadJobs)
    /\ [][Len(inflight') > Len(inflight) => (handleSubmit \/ handleEvaluation)]_vars

\* A failed evaluation on Evaluate.tsx after a failed job list: one request
\* each, and nothing in flight.
C11_Witness ==
    /\ page = "tsx"
    /\ outcome = "rejected"
    /\ jobsLoad = "failed"
    /\ httpSent.evaluateResume = 1
    /\ httpSent.getJobs = 1
    /\ inflight = <<>>

\* C12: once the heuristic scorer has run, the matched skills are the
\* required skills found in the resume, the missing ones the rest, and the
\* keyword sub-score is 100 * |matched| / |required| (to the percent point);
\* required Python, Go, Docker, Kubernetes against a resume with Python,
\* Docker and SQL gives matched Python, Docker, missing Go, Kubernetes and
\* sub-score 50, SQL being in neither list.
C12_KeywordSubScore ==
    (heuristic.done /\ required # <<>>) =>
        /\ Range(skillMatch.matched) = Range(required) \cap resumeSkills
        /\ Range(skillMatch.missing) = Range(required) \ resumeSkills
        /\ heuristic.keyword * Len(required) <= 100 * Len(skillMatch.matched)
        /\ 100 * Len(skillMatch.matched) < (heuristic.keyword + 1) * Len(required)
        /\ (/\ required = <<"Python", "Go", "Docker", "Kubernetes">>
            /\ resumeSkills = {"Python", "Docker", "SQL"}) =>
              /\ skillMatch.matched = <<"Python", "Docker">>
              /\ skillMatch.missing = <<"Go", "Kubernetes">>
              /\ heuristic.keyword = 50
              /\ "SQL" \notin Range(skillMatch.matched) \cup Range(skillMatch.missing)

C12_Witness ==
    /\ heuristic.done
    /\ required = <<"Python", "Go", "Docker", "Kubernetes">>
    /\ resumeSkills = {"Python", "Docker", "SQL"}
    /\ heuristic.keyword = 50

\* Evaluate.tsx: a field of the form is empty.
MissingInformation ==
    name = "" \/ email = "" \/ selectedJobId = "" \/ file = Null

\* C13: on Evaluate.tsx a request is sent only from a state where name,
\* email, selected job id and file are all non-empty, and it carries them;
\* from a state where one of them is empty no step sends a request or
\* raises isLoading, and handleEvaluation changes no result.
C13_SendsOnlyCompleteForm ==
    [][page = "tsx" =>
          /\ Len(inflight') > Len(inflight) =>
                /\ ~MissingInformation
                /\ inflight'[Len(inflight')] = TsxFormData
          /\ MissingInformation =>
                /\ Len(inflight') <= Len(inflight)
                /\ httpSent'.evaluateResume = httpSent.evaluateResume
                /\ isLoading' => isLoading
          /\ handleEvaluation => result' = result]_vars

\* A request sent from the complete form.
C13_Witness ==
    /\ page = "tsx"
    /\ isLoading
    /\ inflight = <<TsxFormData>>
    /\ ~MissingInformation

\* EvaluationForm: the disabled attribute of the submit button.
JsxSubmitDisabled == loading \/ formData.file = Null

\* Evaluate.tsx: the disabled attribute of the Evaluate button.
TsxSubmitDisabled == isLoading \/ MissingInformation

\* C14: at most one evaluation request is in flight; while one is pending
\* the page's loading flag is true and its submit control is disabled, and
\* a request starts only when none is in flight, on both Evaluate pages.
C14_OneRequestInFlight ==
    /\ [](/\ Len(inflight) <= 1
          /\ inflight # <<>> =>
                /\ outcome = "pending"
                /\ page \in {"jsx", "tsx"}
                /\ page = "jsx" => (loading /\ JsxSubmitDisabled)
                /\ page = "tsx" => (isLoading /\ TsxSubmitDisabled))
    /\ [][Len(inflight') > Len(inflight) =>
              /\ inflight = <<>>
              /\ page = "jsx" => ~JsxSubmitDisabled
              /\ page = "tsx" => ~TsxSubmitDisabled]_vars

\* Evaluate.jsx with a request pending and a form that would otherwise be
\* ready to submit again.
C14_Witness ==
    /\ page = "jsx"
    /\ Len(inflight) = 1
    /\ loading
    /\ formData.file # Null
    /\ FormValid(formData, resumeInput)

\* The loading flag of the mounted page, and whether the request it stands
\* for is pending: the evaluation on the Evaluate pages, the job list on
\* BrowseJobs and Home.jsx.
LoadingFlag ==
    CASE page = "jsx" -> loading
      [] page = "tsx" -> isLoading
      [] page \in {"browse", "home"} -> listLoading
      [] OTHER -> FALSE

FlagRequestPending ==
    CASE page \in {"jsx", "tsx"} -> inflight # <<>>
      [] page \in {"browse", "home"} -> jobsLoad = "pending"
      [] OTHER -> FALSE

\* C15: a page's loading flag is true exactly while the request it stands
\* for is pending, from the step that starts the request on, and the step
\* in which the request settles, by success or by failure, makes the flag
\* false.
C15_LoadingFlagCleared ==
    /\ [](LoadingFlag <=> FlagRequestPending)
    /\ [][(FlagRequestPending /\ ~FlagRequestPending') => ~LoadingFlag']_vars

\* Evaluate.tsx after a failed evaluation, the flag cleared.
C15_Witness ==
    /\ page = "tsx"
    /\ outcome = "rejected"
    /\ ~isLoading
    /\ inflight = <<>>

\* C16: the file the FileUpload widget holds and shows as selected is the
\* file the Evaluate page holds, after any sequence of choosing, dropping
\* and removing a file and of resetForm.
C16_WidgetFileIsPageFile ==
    page = "tsx" => fileUploadFile = file

\* Evaluate.tsx: selectedJob = jobs.find(job => job.id.toString() ===
\* selectedJobId), the first loaded job with the selected id, if any.
selectedJob ==
    LET found == {i \in DOMAIN jobs : ToString(jobs[i].id) = selectedJobId}
    IN  IF found = {} THEN Null
        ELSE jobs[CHOOSE i \in found : \A k \in found : i <= k]

\* Evaluate.tsx: the job named under "Evaluated For", rendered inside the
\* result panel when selectedJob is found.
EvaluatedFor ==
    IF TsxPanel = "result" THEN selectedJob ELSE Null

\* C17: whenever Evaluate.tsx names a job under "Evaluated For", it is the
\* job whose id the request behind the displayed result carried, also after
\* the job selection was changed while the result is displayed.
C17_EvaluatedForIsEvaluatedJob ==
    (page = "tsx" /\ EvaluatedFor # Null) =>
        ToString(EvaluatedFor.id) = Get(answered.request, "job_id")

\* C18: on Evaluate.jsx result and error are never both set, and both are
\* null while a request is loading.
C18_ResultXorError ==
    page = "jsx" =>
        /\ result = Null \/ error = Null
        /\ loading => (result = Null /\ error = Null)

\* A failure after an earlier success: the error is set and the earlier
\* result is gone.
C18_Witness ==
    /\ page = "jsx"
    /\ outcome = "rejected"
    /\ answered # Null
    /\ error # Null
    /\ result = Null
    /\ ~loading

\* C19: every request Evaluate.tsx sends carries the id of a job in the
\* loaded job list; with a jobId parameter that matches no loaded job, or
\* with no job list loaded, no request is in flight.
C19_SendsOnlyLoadedJobId ==
    page = "tsx" =>
        \A i \in DOMAIN inflight :
            \E k \in DOMAIN jobs :
                ToString(jobs[k].id) = Get(inflight[i], "job_id")

\* C20: a click on a modal's apply button opens the evaluation form with
\* that job pre-selected: Evaluate.tsx with selectedJobId the job's id
\* (from BrowseJobs, and from the landing page), or Evaluate.jsx with the
\* form's job_id the job's id (from Home.jsx).
C20_ApplyOpensFormWithJob ==
    [][applied' # applied =>
          \/ /\ page' = "tsx"
             /\ selectedJobId' = ToString(applied'.id)
          \/ /\ page' = "jsx"
             /\ formData'.job_id = ToString(applied'.id)]_vars

\* C21: every request sent from EvaluationForm carries a resume file, the
\* one the form holds when the submit is issued, which is never null; and
\* once the form holds a file it keeps holding one, also when a later file
\* dialog is cancelled and the browser empties its input.
C21_RequestCarriesResume ==
    /\ [](page = "jsx" =>
            \A i \in DOMAIN inflight :
                /\ Has(inflight[i], "resume")
                /\ Get(inflight[i], "resume") # Null)
    /\ [][page = "jsx" =>
            /\ Len(inflight') > Len(inflight) =>
                  /\ formData.file # Null
                  /\ Get(inflight'[Len(inflight')], "resume") = formData.file
            /\ formData.file # Null => formData'.file = formData.file]_vars

\* A request in flight with its resume, and a file dialog cancelled
\* afterwards: the input is empty and the form still holds the file.
C21_Witness ==
    /\ page = "jsx"
    /\ inflight # <<>>
    /\ Get(Head(inflight), "resume") = TheResume
    /\ resumeInput = Null
    /\ formData.file = TheResume

\* C22: the file FileUpload holds and has passed to onFileSelect, picked
\* through the dialog or dropped onto the widget, has an extension of the
\* accept list (.pdf, .doc, .docx).
C22_OnlyAcceptedFileSelected ==
    page = "tsx" =>
        /\ file # Null => FileExtension(file) \in accept
        /\ fileUploadFile # Null => FileExtension(fileUploadFile) \in accept

\* C23: the step of Evaluate.tsx that takes the displayed result away,
\* resetForm, leaves name, email, selected job id, file and result empty,
\* leaves the job list and isLoading as they were, and leaves the submit
\* control disabled.
C23_ResetFormClearsForm ==
    [][(page = "tsx" /\ result # Null /\ result' = Null) =>
          /\ name' = "" /\ email' = "" /\ selectedJobId' = ""
          /\ file' = Null
          /\ jobs' = jobs
          /\ isLoading' = isLoading
          /\ TsxSubmitDisabled']_vars

\* Evaluate.tsx after resetForm: an evaluation was answered and the form
\* and the result are empty, with the job list still loaded.
C23_Witness ==
    /\ page = "tsx"
    /\ answered # Null
    /\ result = Null
    /\ name = "" /\ email = "" /\ selectedJobId = "" /\ file = Null
    /\ jobs = JobList
    /\ TsxSubmitDisabled

====
